---- MODULE Spec2Model ----
(***************************************************************************)
(* The ingestion pipelines of the three dashboards of ftr_node:            *)
(*   hydro.py                    lake storage  (load_and_process_data)     *)
(*   ftr_dashboard_combined.py   node prices   (load_and_process_data)     *)
(*   futures.py                  futures       (process_series_data)       *)
(* One run of one script is one behaviour: Init picks the script (app),    *)
(* the actions are the steps of that script in program order.              *)
(* Spec has the files and series of ordinary shape; LakeColumnSpec gives   *)
(* the lake files a 'Lake' column of their own; FuturesSpec runs           *)
(* futures.py on any timestamp text and on listings of many contracts.     *)
(***************************************************************************)
EXTENDS Integers, Sequences, FiniteSets, TLC

VARIABLES
    app,          \* which script runs: "hydro", "node" or "futures"
    inferFormat,  \* how the installed pandas parses a column of date strings: one
                  \* format inferred from the first element (pandas >= 2, TRUE) or
                  \* each element on its own (pandas 1.x, FALSE); set where the
                  \* script first parses dates
    body_lake,    \* the 'Lake' column the downloaded files carry themselves: the
                  \* lake it names, "" when the files have no such column
    pc,           \* position of the script
    i,            \* descriptors the fetch loop has gone through
    outcomes,     \* what each request made so far came back with, in order
                  \* (futures: the name and the number of data points of each
                  \* series read)
    warnings,     \* per-descriptor diagnostics (st.warning / st.error of the loop)
    data_frames,  \* hydro.py:39, the list the loop appends to
    merged_data,  \* hydro.py:85
    strategy,     \* the last timestamp strategy applied (0: none yet)
    counts,       \* hydro.py:140-143, <<before_count, after_count, removed>>
    lake_data,    \* hydro.py:174, what load_and_process_data returned
    filtered_data,\* hydro.py:214
    df_list,      \* futures.py:59, the list process_series_data appends to
    df,           \* futures.py:172
    series_data,  \* futures.py:57, the argument of process_series_data
    now,          \* futures.py:182, the clock reading
    available_contracts,  \* futures.py:179
    active_contracts,     \* futures.py:184
    historic_contracts,   \* futures.py:185
    contract_type,        \* futures.py:200, the radio's value
    filtered_contracts,   \* futures.py:216-223
    default_contracts,    \* futures.py:217-224
    selected_contracts,   \* futures.py:235-242
    log           \* the messages and stages the script went through

\* the state of the contract selection of futures.py
selection == <<now, available_contracts, active_contracts, historic_contracts,
               contract_type, filtered_contracts, default_contracts,
               selected_contracts>>

vars == <<app, inferFormat, body_lake, pc, i, outcomes, warnings, data_frames,
          merged_data, strategy, counts, lake_data, filtered_data, df_list, df,
          series_data, selection, log>>

---------------------------------------------------------------------------
(* Bounds of the model *)

\* descriptors the loop iterates over (LAKE_URLS has 10 entries)
MaxSources == 2
\* data rows over all payloads of one run
MaxRows == 2
\* data points of the one series parse_date_utc is exercised on
MaxPoints == 2
\* series of a listing whose contracts are categorized
MaxContracts == 9

---------------------------------------------------------------------------
(* Values *)

\* a missing timestamp (NaT) and a missing number (NaN); a present one is a
\* non-empty tuple: <<y, m, d>>, or <<n>> for the number n and Inf for the
\* float infinity
NaT == <<>>
NaN == <<>>
Inf == <<1, 0>>

\* hydro.py:23-34: the keys of LAKE_URLS in insertion order
LAKE_URLS ==
    <<"Lake Taupo", "Lake Waikaremoana", "Lake Hawea", "Lake Manapouri",
      "Lake Ohau", "Lake Pukaki", "Lake Te Anau", "Lake Tekapo",
      "Lake Wanaka", "Lake Wakatipu">>

\* the descriptors of a run: the first MaxSources of LAKE_URLS.items()
Lakes == SubSeq(LAKE_URLS, 1, MaxSources)

\* ftr_dashboard_combined.py:23-33
NODE_CODES ==
    <<"OTA2201", "WKM2201", "RDF2201", "SFD2201", "HAY2201", "KIK2201",
      "ISL2201", "BEN2201", "INV2201">>

Nodes == SubSeq(NODE_CODES, 1, MaxSources)

\* the text cells a payload can hold; "" is an empty cell (read as NaN)
DateCells == {"31/01/2020", "01/02/2020", "N/A"}
TimeCells == {"00:00", "n/a"}
StorageCells == {"10", "inf", "N/A"}

\* the rows of a payload; next to a date cell that is no date the time cell
\* makes no difference, and one time is enough
RawRows ==
    {r \in [Date : DateCells, Time : TimeCells, Storage : StorageCells] :
        r.Date = "N/A" => r.Time = "00:00"}

\* the one row of a payload that has none of the expected columns
BlankRow == [Date |-> "", Time |-> "", Storage |-> ""]

RECURSIVE SeqsUpTo(_, _)
SeqsUpTo(S, n) ==
    IF n = 0 THEN {<<>>}
    ELSE LET shorter == SeqsUpTo(S, n - 1)
         IN  shorter \cup {Append(s, x) : s \in {t \in shorter : Len(t) = n - 1}, x \in S}

\* what one request can come back with, given that k more rows fit the bound:
\*   status   a response whose status_code is not 200 (its body is never read)
\*   neterr   session.get raises requests.RequestException
\*   badbody  status 200, pd.read_csv raises (empty or malformed body)
\*   nocols   status 200, a CSV without the expected columns
\*   csv      status 200, a CSV with the expected columns
\* Lake is the file's own 'Lake' column, one value for all its rows
Responses(k) ==
    {[kind |-> c, rows |-> <<>>, Lake |-> body_lake] : c \in {"neterr", "badbody"}}
    \cup {[kind |-> "status", rows |-> rs, Lake |-> body_lake] :
            rs \in SeqsUpTo(RawRows, k)}
    \cup (IF k > 0
          THEN {[kind |-> "nocols", rows |-> <<BlankRow>>, Lake |-> body_lake]}
          ELSE {})
    \cup {[kind |-> "csv", rows |-> rs, Lake |-> body_lake] :
            rs \in SeqsUpTo(RawRows, k)}

---------------------------------------------------------------------------
(* Sequences *)

RECURSIVE Concat(_)
Concat(ss) == IF ss = <<>> THEN <<>> ELSE Head(ss) \o Concat(Tail(ss))

Range(s) == {s[k] : k \in 1..Len(s)}

RECURSIVE SumLen(_)
SumLen(ss) == IF ss = <<>> THEN 0 ELSE Len(Head(ss).rows) + SumLen(Tail(ss))

---------------------------------------------------------------------------
(* pandas.to_datetime on the text cells (hydro.py:111-137) *)

\* the numeric fields of a delimited date string, in the order written
Tokens(s) ==
    CASE s = "31/01/2020" -> <<31, 1, 2020>>
      [] s = "01/02/2020" -> <<1, 2, 2020>>
      [] OTHER -> <<>>

IsLeap(y) == (y % 4 = 0 /\ y % 100 # 0) \/ y % 400 = 0

DaysInMonth(y, m) ==
    IF m = 2 THEN (IF IsLeap(y) THEN 29 ELSE 28)
    ELSE IF m \in {4, 6, 9, 11} THEN 30 ELSE 31

\* datetime(y, m, d), NaT where that is no calendar date
MkDate(y, m, d) ==
    IF y \in 1..9999 /\ m \in 1..12 /\ d >= 1 /\ d <= DaysInMonth(y, m)
    THEN <<y, m, d>>
    ELSE NaT

\* an element of the string column handed to to_datetime: the date text and the
\* time text ("-" when the column holds the date alone); NullStr is NaN
NullStr == [d |-> "", t |-> ""]

TimeOk(t) == t \in {"-", "00:00"}

\* element-wise parsing with no format and dayfirst unset: the first field is
\* the month unless it exceeds 12, and then it is the day
DateutilParse(e) ==
    LET f == Tokens(e.d)
    IN  IF e = NullStr \/ ~TimeOk(e.t) \/ f = <<>> THEN NaT
        ELSE IF f[1] > 12 THEN MkDate(f[3], f[2], f[1])
        ELSE MkDate(f[3], f[1], f[2])

\* parsing with a format: the element has to match it exactly
Strptime(fmt, e) ==
    LET f == Tokens(e.d)
    IN  IF e = NullStr \/ ~TimeOk(e.t) \/ f = <<>> THEN NaT
        ELSE IF fmt = "%d/%m/%Y" THEN MkDate(f[3], f[2], f[1])
        ELSE MkDate(f[3], f[1], f[2])

\* the format pandas >= 2 infers from one element, "" when it infers none
guess_datetime_format(e) ==
    IF DateutilParse(e) = NaT THEN ""
    ELSE IF Tokens(e.d)[1] > 12 THEN "%d/%m/%Y" ELSE "%m/%d/%Y"

\* pd.to_datetime(col, format=fmt, errors='coerce'); fmt = "" is no format.
\* With infer (pandas >= 2) the format guessed from the first non-null element
\* is applied to every element; otherwise each element is parsed on its own.
to_datetime(col, fmt, infer) ==
    LET IsStr(e) == e # NullStr
        nonnull == SelectSeq(col, IsStr)
        used == IF fmt # "" THEN fmt
                ELSE IF infer /\ nonnull # <<>> THEN guess_datetime_format(Head(nonnull))
                ELSE ""
    IN  [k \in 1..Len(col) |->
            IF used = "" THEN DateutilParse(col[k]) ELSE Strptime(used, col[k])]

\* hydro.py:112, merged_data['Date'] + ' ' + merged_data['Time']
DatePlusTime(rows) ==
    [k \in 1..Len(rows) |->
        IF rows[k].Date = "" \/ rows[k].Time = "" THEN NullStr
        ELSE [d |-> rows[k].Date, t |-> rows[k].Time]]

\* merged_data['Date']
DateColumn(rows) ==
    [k \in 1..Len(rows) |->
        IF rows[k].Date = "" THEN NullStr ELSE [d |-> rows[k].Date, t |-> "-"]]

\* .notna().sum()
NotNaCount(col) == Cardinality({k \in 1..Len(col) : col[k] # NaT})

\* the three strategies, each a DateTime column for the whole table
Strategy1(rows, infer) == to_datetime(DatePlusTime(rows), "", infer)
Strategy2(rows, infer) == to_datetime(DateColumn(rows), "", infer)
Strategy3(rows, infer) == to_datetime(DateColumn(rows), "%d/%m/%Y", infer)

\* the chain falling back as soon as a strategy leaves any row unparsed
ParseTimestamps_AnyInvalid(rows, infer) ==
    IF NotNaCount(Strategy1(rows, infer)) = Len(rows)
    THEN [strategy |-> 1, DateTime |-> Strategy1(rows, infer)]
    ELSE IF NotNaCount(Strategy2(rows, infer)) = Len(rows)
    THEN [strategy |-> 2, DateTime |-> Strategy2(rows, infer)]
    ELSE [strategy |-> 3, DateTime |-> Strategy3(rows, infer)]

\* the chain run for each row on its own: a row takes the first strategy that
\* parses it
ParseTimestamps_PerRow(rows, infer) ==
    LET s1 == Strategy1(rows, infer)
        s2 == Strategy2(rows, infer)
        s3 == Strategy3(rows, infer)
    IN  [strategy |-> IF NotNaCount(s1) # 0 THEN 1 ELSE IF NotNaCount(s2) # 0 THEN 2 ELSE 3,
         DateTime |-> [k \in 1..Len(rows) |->
                         IF s1[k] # NaT THEN s1[k] ELSE IF s2[k] # NaT THEN s2[k] ELSE s3[k]]]

\* hydro.py:111-137: the fallback chain; the strategy applied last and its column
ParseTimestamps(rows, infer) ==
    IF NotNaCount(Strategy1(rows, infer)) # 0
    THEN [strategy |-> 1, DateTime |-> Strategy1(rows, infer)]
    ELSE IF NotNaCount(Strategy2(rows, infer)) # 0
    THEN [strategy |-> 2, DateTime |-> Strategy2(rows, infer)]
    ELSE [strategy |-> 3, DateTime |-> Strategy3(rows, infer)]

\* merged_data['DateTime'] = ...
WithDateTime(rows, col) ==
    [k \in 1..Len(rows) |->
        [Date |-> rows[k].Date, Time |-> rows[k].Time, Storage |-> rows[k].Storage,
         Lake |-> rows[k].Lake, src |-> rows[k].src, idx |-> rows[k].idx,
         DateTime |-> col[k]]]

\* hydro.py:141, merged_data.dropna(subset=['DateTime'])
DropNaDateTime(rows) ==
    LET Keep(r) == r.DateTime # NaT IN SelectSeq(rows, Keep)

---------------------------------------------------------------------------
(* Numeric coercion and the final table (hydro.py:151-170) *)

\* pd.to_numeric(cell, errors='coerce'): the number the text spells, the
\* float infinity for "inf", NaN for any other text and for an empty cell
to_numeric(s) ==
    CASE s = "10" -> <<10>>
      [] s = "inf" -> Inf
      [] OTHER -> NaN

\* the cells that are no number filled with 0 instead of left missing
CoerceStorage_FillZero(rows) ==
    [k \in 1..Len(rows) |->
        [rows[k] EXCEPT !.Storage = IF to_numeric(@) = NaN THEN <<0>> ELSE to_numeric(@)]]

\* hydro.py:152-155
CoerceStorage(rows) ==
    [k \in 1..Len(rows) |-> [rows[k] EXCEPT !.Storage = to_numeric(@)]]

\* the rows with a missing storage value kept
DropNaStorage_KeepsAll(rows) == rows

\* hydro.py:158, merged_data.dropna(subset=['Active storage (Mm3)'])
DropNaStorage(rows) ==
    LET Keep(r) == r.Storage # NaN IN SelectSeq(rows, Keep)

\* hydro.py:161-166: the columns kept, renamed (src and idx are the row's origin,
\* kept for the properties: the descriptor index and the position in its payload)
FinalData(rows) ==
    [k \in 1..Len(rows) |->
        [Date |-> rows[k].DateTime, Storage |-> rows[k].Storage,
         Lake |-> rows[k].Lake, src |-> rows[k].src, idx |-> rows[k].idx]]

\* hydro.py:104-170 as a function of the merged table
ProcessMerged(rows, infer) ==
    FinalData(DropNaStorage(CoerceStorage(DropNaDateTime(
        WithDateTime(rows, ParseTimestamps(rows, infer).DateTime)))))

---------------------------------------------------------------------------
(* hydro.py: the fetch loop (lines 42-76) *)

\* the status code is not looked at: any response that arrived is read
Downloaded_AnyStatus(resp) == resp.kind # "neterr"

\* status 200 and pd.read_csv returned a table
Downloaded(resp) == resp.kind \in {"csv", "nocols"}

\* the series of a row read from the file's own 'Lake' column where it has one
FrameOf_BodyLake(resp, lake, k) ==
    [cols |-> resp.kind = "csv",
     rows |-> [j \in 1..Len(resp.rows) |->
                 [Date |-> resp.rows[j].Date, Time |-> resp.rows[j].Time,
                  Storage |-> resp.rows[j].Storage,
                  Lake |-> IF resp.Lake # "" THEN resp.Lake ELSE lake,
                  src |-> k, idx |-> j]]]

\* hydro.py:61-68: the payload as a DataFrame with df['Lake'] = lake_name, which
\* replaces a 'Lake' column of the file
FrameOf(resp, lake, k) ==
    [cols |-> resp.kind = "csv",
     rows |-> [j \in 1..Len(resp.rows) |->
                 [Date |-> resp.rows[j].Date, Time |-> resp.rows[j].Time,
                  Storage |-> resp.rows[j].Storage,
                  Lake |-> lake, src |-> k, idx |-> j]]]

\* hydro.py:51-73: data_frames after one iteration
FramesAfter(frames, resp, lake, k) ==
    IF Downloaded(resp) THEN Append(frames, FrameOf(resp, lake, k)) ELSE frames

\* hydro.py:72-76: the iteration ends in st.warning (status) or st.error (except)
WarningsAfter(w, resp) ==
    IF resp.kind \in {"status", "neterr"} THEN w + 1 ELSE w

\* what the try statement of the loop body lets through: requests.RequestException
\* is caught (hydro.py:75), an error of pd.read_csv is not
Escapes(resp) == resp.kind = "badbody"

\* hydro.py:310-312: the script's except Exception
ExceptHandler(l) == l \cup {"error_occurred"}

\* st.stop as an ordinary exception, which the script's except clause catches
StopWith_Caught(l, msg) == ExceptHandler(l \cup {msg})

\* st.error(msg) followed by st.stop(): the message is shown and the run ends.
\* st.stop raises streamlit's StopException, a BaseException, which the
\* script's  except Exception  (hydro.py:310) does not catch.
StopWith(l, msg) == l \cup {msg}

\* one iteration of  for lake_name, url in LAKE_URLS.items()
FetchOne ==
    /\ app = "hydro" /\ pc = "fetch" /\ i < Len(Lakes)
    /\ \E resp \in Responses(MaxRows - SumLen(data_frames)) :
        /\ outcomes' = Append(outcomes, resp.kind)
        /\ IF Escapes(resp)
           THEN /\ log' = ExceptHandler(log)
                /\ pc' = "done"
                /\ UNCHANGED <<i, warnings, data_frames>>
           ELSE /\ data_frames' = FramesAfter(data_frames, resp, Lakes[i + 1], i + 1)
                /\ warnings' = WarningsAfter(warnings, resp)
                /\ i' = i + 1
                /\ UNCHANGED <<pc, log>>
    /\ UNCHANGED <<app, body_lake, series_data, selection, inferFormat, merged_data,
                   strategy, counts, lake_data, filtered_data, df_list, df>>

---------------------------------------------------------------------------
(* hydro.py: merge and processing (lines 78-170) *)

\* the frames concatenated last to first
ConcatFrames_Reversed(frames) ==
    Concat([k \in 1..Len(frames) |-> frames[Len(frames) + 1 - k].rows])

\* hydro.py:85, pd.concat(data_frames, ignore_index=True)
ConcatFrames(frames) ==
    Concat([k \in 1..Len(frames) |-> frames[k].rows])

\* hydro.py:94-95: the expected columns are missing when no frame has them
MissingCols(frames) == \A k \in 1..Len(frames) : ~frames[k].cols

\* hydro.py:79-102
Merge ==
    /\ app = "hydro" /\ pc = "fetch" /\ i = Len(Lakes)
    /\ IF data_frames = <<>>
       THEN /\ log' = StopWith(log, "no_sources")
            /\ pc' = "stopped"
            /\ UNCHANGED merged_data
       ELSE /\ merged_data' = ConcatFrames(data_frames)
            /\ IF MissingCols(data_frames)
               THEN /\ log' = StopWith(log \cup {"merged"}, "missing_cols")
                    /\ pc' = "stopped"
               ELSE /\ log' = log \cup {"merged"}
                    /\ pc' = "dates"
    /\ UNCHANGED <<app, body_lake, series_data, selection, inferFormat, i, outcomes,
                   warnings, data_frames, strategy, counts, lake_data, filtered_data,
                   df_list, df>>

\* hydro.py:140-143: before_count, after_count and the number removed
CountsOf(before, after) == <<Len(before), Len(after), Len(before) - Len(after)>>

\* hydro.py:104-143; the pandas version is not pinned by the repository, so
\* either way of parsing a column is possible
ParseDates ==
    /\ app = "hydro" /\ pc = "dates"
    /\ \E infer \in BOOLEAN :
        LET parsed == ParseTimestamps(merged_data, infer)
            kept == DropNaDateTime(WithDateTime(merged_data, parsed.DateTime))
        IN  /\ inferFormat' = infer
            /\ strategy' = parsed.strategy
            /\ merged_data' = kept
            /\ counts' = CountsOf(merged_data, kept)
    /\ pc' = "storage"
    /\ UNCHANGED <<app, body_lake, series_data, selection, i, outcomes, warnings,
                   data_frames, lake_data, filtered_data, df_list, df, log>>

\* hydro.py:145-170
Coerce ==
    /\ app = "hydro" /\ pc = "storage"
    /\ IF Len(merged_data) = 0
       THEN /\ log' = StopWith(log, "no_valid_dates")
            /\ pc' = "stopped"
            /\ UNCHANGED <<merged_data, lake_data>>
       ELSE /\ merged_data' = DropNaStorage(CoerceStorage(merged_data))
            /\ lake_data' = FinalData(merged_data')
            /\ log' = log \cup {"complete"}
            /\ pc' = "loaded"
    /\ UNCHANGED <<app, body_lake, series_data, selection, inferFormat, i, outcomes,
                   warnings, data_frames, strategy, counts, filtered_data, df_list,
                   df>>

---------------------------------------------------------------------------
(* hydro.py: the script around load_and_process_data (lines 172-312) *)

\* the table handed on without the check for an empty one
CheckLoaded_NoCheck ==
    /\ app = "hydro" /\ pc = "loaded"
    /\ log' = log \cup {"loaded"}
    /\ pc' = "present"
    /\ UNCHANGED <<app, body_lake, series_data, selection, inferFormat, i, outcomes,
                   warnings, data_frames, merged_data, strategy, counts, lake_data,
                   filtered_data, df_list, df>>

\* hydro.py:176-185
CheckLoaded ==
    /\ app = "hydro" /\ pc = "loaded"
    /\ IF Len(lake_data) = 0
       THEN /\ log' = StopWith(log, "no_processed")
            /\ pc' = "stopped"
       ELSE /\ log' = log \cup {"loaded"}
            /\ pc' = "present"
    /\ UNCHANGED <<app, body_lake, series_data, selection, inferFormat, i, outcomes,
                   warnings, data_frames, merged_data, strategy, counts, lake_data,
                   filtered_data, df_list, df>>

\* hydro.py:214-218 with the date widgets at their defaults (the whole range)
FilterLakes(rows, selected) ==
    LET Keep(r) == r.Lake \in selected IN SelectSeq(rows, Keep)

\* hydro.py:187-308: filters, charts, tables and the export
Present ==
    /\ app = "hydro" /\ pc = "present"
    /\ \E selected_lakes \in SUBSET {r.Lake : r \in Range(lake_data)} :
        filtered_data' = FilterLakes(lake_data, selected_lakes)
    /\ log' = log \cup {"presented"}
    /\ pc' = "done"
    /\ UNCHANGED <<app, body_lake, series_data, selection, inferFormat, i, outcomes,
                   warnings, data_frames, merged_data, strategy, counts, lake_data,
                   df_list, df>>

---------------------------------------------------------------------------
(* ftr_dashboard_combined.py *)

\* the names load_and_process_data reads that the module never binds: the
\* imports are os, streamlit, pandas, plotly.express and, from datetime,
\* datetime and timedelta (lines 1-5); date (line 40), requests (line 49) and
\* StringIO (line 71) are not among them
UnboundNames == {"date", "requests", "StringIO"}

\* ftr_dashboard_combined.py:109-110, 200-202: load_and_process_data is called;
\* date.today() at line 40 raises NameError before any request is made, and the
\* script's except Exception handles it
NodeLoad ==
    /\ app = "node" /\ pc = "fetch"
    /\ "date" \in UnboundNames
    /\ log' = ExceptHandler(log)
    /\ pc' = "done"
    /\ UNCHANGED <<app, body_lake, series_data, selection, inferFormat, i, outcomes,
                   warnings, data_frames, merged_data, strategy, counts, lake_data,
                   filtered_data, df_list, df>>

---------------------------------------------------------------------------
(* futures.py: parse_date_utc and process_series_data (lines 42-71) *)

\* the 'timestamp' cells of a data point; "" is None
TimestampCells == {"Date.UTC(2024,0,31)", "Date.UTC(2024,1,30)", ""}
\* the 'price' cells: a number or null
PriceCells == {<<5>>, NaN}
ContractNames == {"BEN Mar-2025", "BEN Jun-2025"}

DataPoints == [timestamp : TimestampCells, price : PriceCells]

\* the three numbers a Date.UTC text can hold: year, zero-based month, day
UtcYears == {0, 2023, 2024}
UtcMonths == {0, 1, 11, 12}
UtcDays == {0, 29, 30, 31, 32}
UtcTriples == {<<y, m, d>> : y \in UtcYears, m \in UtcMonths, d \in UtcDays}

\* the text Date.UTC(y,m,d)
UtcText(g) ==
    "Date.UTC(" \o ToString(g[1]) \o "," \o ToString(g[2]) \o ","
        \o ToString(g[3]) \o ")"

\* the texts that contain Date.UTC(y,m,d): alone, or with text around it
UtcTexts(g) == {UtcText(g), "new " \o UtcText(g) \o ";"}

\* texts without the pattern: no Date.UTC at all, blanks after the commas, a
\* negative number, a group that is no number
OtherTexts == {"2024-01-31", "Date.UTC(2024, 0, 31)", "Date.UTC(2024,-1,31)",
               "Date.UTC(2024,0,x)"}

\* every 'timestamp' cell: with the pattern, without it, None
AnyTimestampCells == UNION {UtcTexts(g) : g \in UtcTriples} \cup OtherTexts \cup {""}

AnyDataPoints == [timestamp : AnyTimestampCells, price : PriceCells]

\* the texts the pattern matches, each with the numbers of its three groups
UtcMatches ==
    [s \in UNION {UtcTexts(g) : g \in UtcTriples} |->
        CHOOSE g \in UtcTriples : s \in UtcTexts(g)]

\* re.search(r'Date\.UTC\((\d+),(\d+),(\d+)\)', s) and map(int, match.groups()):
\* the three numbers of the text, <<>> if there is no match
UtcGroups(s) == IF s \in DOMAIN UtcMatches THEN UtcMatches[s] ELSE <<>>

\* the month handed to datetime as it stands in the text
parse_date_utc_MonthAsIs(date_str) ==
    IF date_str = "" THEN NaT
    ELSE LET g == UtcGroups(date_str)
         IN  IF g = <<>> THEN NaT ELSE MkDate(g[1], g[2], g[3])

\* futures.py:43-54
parse_date_utc(date_str) ==
    IF date_str = "" THEN NaT
    ELSE LET g == UtcGroups(date_str)
         IN  IF g = <<>> THEN NaT ELSE MkDate(g[1], g[2] + 1, g[3])

\* futures.py:61-66: one series as a DataFrame, rows without date or price dropped
SeriesFrame(series, k) ==
    LET all == [j \in 1..Len(series.data) |->
                   [timestamp |-> series.data[j].timestamp,
                    price |-> series.data[j].price,
                    contract |-> series.name,
                    date |-> parse_date_utc(series.data[j].timestamp),
                    src |-> k, idx |-> j]]
        Keep(r) == r.date # NaT /\ r.price # NaN
    IN  SelectSeq(all, Keep)

\* the series of at most k data points
SeriesInputs(k) ==
    {[name |-> n, data |-> d] : n \in ContractNames, d \in SeqsUpTo(DataPoints, k)}

\* data['series']: at most n series with at most k data points between them
RECURSIVE SeriesLists(_, _)
SeriesLists(n, k) ==
    IF n = 0 THEN {<<>>}
    ELSE {<<>>} \cup
         UNION {{<<s>> \o rest : rest \in SeriesLists(n - 1, k - Len(s.data))} :
                    s \in SeriesInputs(k)}

\* futures.py:60-67: one iteration of  for series in series_data
SeriesStep ==
    /\ app = "futures" /\ pc = "fetch" /\ i < Len(series_data)
    /\ LET series == series_data[i + 1]
       IN  /\ df_list' = Append(df_list, SeriesFrame(series, i + 1))
           /\ outcomes' = Append(outcomes, [name |-> series.name,
                                           points |-> Len(series.data)])
    /\ i' = i + 1
    /\ UNCHANGED <<app, body_lake, series_data, selection, inferFormat, pc, warnings,
                   data_frames, merged_data, strategy, counts, lake_data,
                   filtered_data, df, log>>

\* futures.py:69-71 and 174-176: the table returned, and main's check of it
SeriesReturn ==
    /\ app = "futures" /\ pc = "fetch" /\ i = Len(series_data)
    /\ df' = Concat(df_list)
    /\ IF df' = <<>>
       THEN /\ log' = log \cup {"no_valid_data"}
            /\ pc' = "stopped"
       ELSE /\ log' = log \cup {"loaded"}
            /\ pc' = "contracts"
    /\ UNCHANGED <<app, body_lake, series_data, selection, inferFormat, i, outcomes,
                   warnings, data_frames, merged_data, strategy, counts, lake_data,
                   filtered_data, df_list>>

---------------------------------------------------------------------------
(* futures.py: the contract selection of main (lines 178-242) *)

\* contract names in the order sorted() puts them
SortedNames ==
    <<"BEN Dec-2023", "BEN Dec-2024", "BEN Jun-2023", "BEN Jun-2024",
      "BEN Jun-2025", "BEN Mar-2023", "BEN Mar-2024", "BEN Mar-2025",
      "BEN Sep-2023", "BEN Sep-2024", "BEN Sep-2025">>

\* futures.py:179, sorted(df['contract'].unique())
SortedUnique(names) ==
    LET Listed(c) == c \in names IN SelectSeq(SortedNames, Listed)

RECURSIVE DaysBeforeMonth(_, _)
DaysBeforeMonth(y, m) ==
    IF m = 1 THEN 0 ELSE DaysBeforeMonth(y, m - 1) + DaysInMonth(y, m - 1)

\* the day number of a date (date.toordinal)
ToOrdinal(date) ==
    LET y == date[1] - 1
    IN  365 * y + (y \div 4) - (y \div 100) + (y \div 400)
            + DaysBeforeMonth(date[1], date[2]) + date[3]

\* the clock readings of pd.Timestamp.now(): a date and whether it is exactly
\* midnight (tod 0) or later in the day (tod 1)
Nows ==
    {[date |-> <<2024, 2, 15>>, tod |-> 1], [date |-> <<2024, 6, 28>>, tod |-> 0],
     [date |-> <<2024, 6, 28>>, tod |-> 1], [date |-> <<2024, 7, 29>>, tod |-> 1]}

\* futures.py:182, pd.Timestamp.now() - pd.Timedelta(days=180)
RecentThreshold(t) == [day |-> ToOrdinal(t.date) - 180, tod |-> t.tod]

\* futures.py:188, contract_data['date'].max()
LatestDate(rows, contract) ==
    LET dates == {r.date : r \in {q \in Range(rows) : q.contract = contract}}
    IN  CHOOSE d \in dates : \A e \in dates : ToOrdinal(e) <= ToOrdinal(d)

\* futures.py:190, latest_date >= recent_threshold (a date of the table is at
\* midnight)
IsRecent(latest_date, recent_threshold) ==
    \/ ToOrdinal(latest_date) > recent_threshold.day
    \/ ToOrdinal(latest_date) = recent_threshold.day /\ recent_threshold.tod = 0

\* futures.py:184-192
ActiveContracts(available, rows, recent_threshold) ==
    LET Active(c) == IsRecent(LatestDate(rows, c), recent_threshold)
    IN  SelectSeq(available, Active)

\* futures.py:184-194
HistoricContracts(available, rows, recent_threshold) ==
    LET Historic(c) == ~IsRecent(LatestDate(rows, c), recent_threshold)
    IN  SelectSeq(available, Historic)

\* futures.py:178-194
Categorize ==
    /\ app = "futures" /\ pc = "contracts"
    /\ \E t \in Nows :
        /\ now' = t
        /\ available_contracts' = SortedUnique({r.contract : r \in Range(df)})
        /\ active_contracts' =
            ActiveContracts(available_contracts', df, RecentThreshold(t))
        /\ historic_contracts' =
            HistoricContracts(available_contracts', df, RecentThreshold(t))
    /\ pc' = "select"
    /\ UNCHANGED <<app, body_lake, series_data, inferFormat, i, outcomes, warnings,
                   data_frames, merged_data, strategy, counts, lake_data,
                   filtered_data, df_list, df, log, contract_type,
                   filtered_contracts, default_contracts, selected_contracts>>

\* futures.py:200-206, the options of the radio
ContractTypes == {"Active Contracts", "Historic Contracts", "All Contracts"}

\* s[:n]
Take(s, n) == SubSeq(s, 1, IF n < Len(s) THEN n ELSE Len(s))

\* futures.py:216-224
FilteredContracts(type, active, historic, available) ==
    CASE type = "Active Contracts" -> active
      [] type = "Historic Contracts" -> historic
      [] OTHER -> available

\* the default selection without the limit of 8, and all contracts offered by
\* default under All Contracts
DefaultContracts_NoLimit(type, active, historic, available) ==
    CASE type = "Active Contracts" -> active
      [] type = "Historic Contracts" -> historic
      [] OTHER -> available

\* futures.py:216-224
DefaultContracts(type, active, historic, available) ==
    CASE type = "Active Contracts" -> Take(active, 8)
      [] type = "Historic Contracts" -> Take(historic, 8)
      [] OTHER -> IF active # <<>> THEN Take(active, 8) ELSE Take(available, 8)

\* st.multiselect raises StreamlitAPIException when a default value is not
\* among the options
MultiselectRaises(options, default) == ~(Range(default) \subseteq Range(options))

\* futures.py:200-242
SelectContracts ==
    /\ app = "futures" /\ pc = "select"
    /\ \E type \in ContractTypes, select_all \in BOOLEAN :
        LET filtered == FilteredContracts(type, active_contracts,
                                          historic_contracts, available_contracts)
            default == DefaultContracts(type, active_contracts,
                                        historic_contracts, available_contracts)
        IN  /\ contract_type' = type
            /\ filtered_contracts' = filtered
            /\ default_contracts' = default
            /\ IF select_all
               THEN /\ selected_contracts' = filtered
                    /\ log' = log \cup {"selected"}
               ELSE IF MultiselectRaises(filtered, default)
               THEN /\ selected_contracts' = <<>>
                    /\ log' = log \cup {"exception"}
               ELSE /\ selected_contracts' = default
                    /\ log' = log \cup {"selected"}
    /\ pc' = "done"
    /\ UNCHANGED <<app, body_lake, series_data, inferFormat, i, outcomes, warnings,
                   data_frames, merged_data, strategy, counts, lake_data,
                   filtered_data, df_list, df, now, available_contracts,
                   active_contracts, historic_contracts>>

---------------------------------------------------------------------------
(* The run *)

\* nothing fetched, parsed or shown yet
Fresh ==
    /\ inferFormat = FALSE
    /\ pc = "fetch"
    /\ i = 0
    /\ outcomes = <<>>
    /\ warnings = 0
    /\ data_frames = <<>>
    /\ merged_data = <<>>
    /\ strategy = 0
    /\ counts = <<0, 0, 0>>
    /\ lake_data = <<>>
    /\ filtered_data = <<>>
    /\ df_list = <<>>
    /\ df = <<>>
    /\ now = <<>>
    /\ available_contracts = <<>>
    /\ active_contracts = <<>>
    /\ historic_contracts = <<>>
    /\ contract_type = ""
    /\ filtered_contracts = <<>>
    /\ default_contracts = <<>>
    /\ selected_contracts = <<>>
    /\ log = {}

\* a run of one of the three scripts; the files downloaded have the expected
\* columns and no 'Lake' column of their own
Init ==
    /\ app \in {"hydro", "node", "futures"}
    /\ body_lake = ""
    /\ series_data \in
        IF app = "futures" THEN SeriesLists(MaxSources, MaxRows) ELSE {<<>>}
    /\ Fresh

Next ==
    \/ FetchOne
    \/ Merge
    \/ ParseDates
    \/ Coerce
    \/ CheckLoaded
    \/ Present
    \/ NodeLoad
    \/ SeriesStep
    \/ SeriesReturn
    \/ Categorize
    \/ SelectContracts

Spec == Init /\ [][Next]_vars

\* The runs of the two scripts that build a table, with files that carry a
\* 'Lake' column of their own naming the first lake of LAKE_URLS: the second
\* descriptor's file names a series other than the one it is fetched for.
\* (futures.py:63 builds each frame with columns=['timestamp', 'price'], so a
\* data point has no column that could name a contract.)
LakeColumnInit ==
    /\ app \in {"hydro", "futures"}
    /\ body_lake = IF app = "hydro" THEN LAKE_URLS[1] ELSE ""
    /\ series_data \in
        IF app = "futures" THEN SeriesLists(MaxSources, MaxRows) ELSE {<<>>}
    /\ Fresh

LakeColumnNext ==
    \/ FetchOne
    \/ Merge
    \/ ParseDates
    \/ Coerce
    \/ CheckLoaded
    \/ Present
    \/ SeriesStep
    \/ SeriesReturn
    \/ Categorize
    \/ SelectContracts

LakeColumnSpec == LakeColumnInit /\ [][LakeColumnNext]_vars

\* one series whose last data point has any timestamp cell, after ordinary ones
AnySeries ==
    {[name |-> n, data |-> Append(d, p)] :
        n \in ContractNames, d \in SeqsUpTo(DataPoints, MaxPoints - 1),
        p \in AnyDataPoints}

\* the data points the listings of many contracts end with
LastPoints ==
    {[timestamp |-> c, price |-> <<5>>] :
        c \in {"Date.UTC(2024,0,31)", "Date.UTC(2023,11,31)"}}

\* a listing of n contracts, the newest first, one data point each
Listings(n) ==
    {[k \in 1..n |-> [name |-> SortedNames[n + 1 - k], data |-> <<last[k]>>]] :
        last \in [1..n -> LastPoints]}

\* The runs of the futures script: process_series_data on one series with any
\* timestamp cell, or on a listing of up to MaxContracts contracts.
FuturesInit ==
    /\ app = "futures"
    /\ body_lake = ""
    /\ series_data \in
        {<<s>> : s \in AnySeries} \cup UNION {Listings(n) : n \in 1..MaxContracts}
    /\ Fresh

FuturesNext ==
    \/ SeriesStep
    \/ SeriesReturn
    \/ Categorize
    \/ SelectContracts

FuturesSpec == FuturesInit /\ [][FuturesNext]_vars

---------------------------------------------------------------------------
(* Properties *)

\* the descriptor list of the script that runs
Descriptors == IF app = "node" THEN Nodes ELSE Lakes

Ended == pc \in {"stopped", "done"}

\* the requests that came back as a per-descriptor failure
FailedFetches == {k \in 1..Len(outcomes) : outcomes[k] \in {"status", "neterr"}}
\* the requests that came back with status 200 and a readable table
GoodFetches == {k \in 1..Len(outcomes) : outcomes[k] \in {"csv", "nocols"}}

\* every row any table of the run holds
AllRows ==
    Range(ConcatFrames(data_frames)) \cup Range(merged_data)
        \cup Range(lake_data) \cup Range(filtered_data)

\* C1: once a dashboard's fetch loop is over, each descriptor of its list has
\* been requested exactly once: no per-descriptor outcome ends the loop early.
C1_EveryDescriptorAttempted ==
    (app \in {"hydro", "node"} /\ (pc # "fetch" \/ i = Len(Descriptors)))
        => Len(outcomes) = Len(Descriptors)

\* C2: when every descriptor has been requested and every request failed, the
\* run stops with the no-sources message alone: nothing is merged, parsed,
\* returned or presented, and the except handler's message is not shown.
C2_NoSourcesHalts ==
    (/\ app \in {"hydro", "node"}
     /\ pc # "fetch"
     /\ Len(outcomes) = Len(Descriptors)
     /\ FailedFetches = 1..Len(outcomes))
        => /\ pc = "stopped"
           /\ log = {"no_sources"}
           /\ merged_data = <<>> /\ lake_data = <<>> /\ filtered_data = <<>>
           /\ strategy = 0

C2_Witness ==
    /\ app = "hydro" /\ pc = "stopped" /\ "no_sources" \in log
    /\ Len(outcomes) = Len(Lakes)
    /\ \E a, b \in 1..Len(outcomes) : outcomes[a] = "status" /\ outcomes[b] = "neterr"

\* C3: no table ever holds a row of a descriptor whose fetch failed: every row
\* comes from a request that succeeded and carries the series of such a
\* request; each failed request left exactly one diagnostic. With one 200 and
\* one 404 the output is the first source's series only, with one diagnostic.
C3_NoRowFromFailedFetch ==
    /\ \A r \in AllRows :
        /\ r.src \in GoodFetches
        /\ r.Lake \in {Lakes[k] : k \in GoodFetches}
    /\ app = "hydro" => warnings = Cardinality(FailedFetches)

C3_Witness ==
    /\ app = "hydro" /\ "presented" \in log
    /\ Cardinality(GoodFetches) = 1 /\ Cardinality(FailedFetches) = 1
    /\ outcomes[1] = "csv" /\ outcomes[2] = "status"
    /\ lake_data # <<>> /\ filtered_data = lake_data
    /\ warnings = 1

\* the merged table as hydro.py:85 built it, before any row was dropped
Merged0 == ConcatFrames(data_frames)

\* where a row came from: the descriptor and the position in its payload
Origin(r) == <<r.src, r.idx>>
Origins(rows) == {Origin(r) : r \in Range(rows)}

\* C4: the three strategies are tried in the fixed order and the chain stops at
\* the first that yields a valid timestamp: strategy 2 is applied only when
\* strategy 1 yields none, strategy 3 only when 1 and 2 both yield none; a row
\* that fails all three is dropped; the original count, the retained count and
\* their difference are reported.
C4_FallbackOrder ==
    (app = "hydro" /\ pc = "storage") =>
        LET n1 == NotNaCount(Strategy1(Merged0, inferFormat))
            n2 == NotNaCount(Strategy2(Merged0, inferFormat))
            s1 == Strategy1(Merged0, inferFormat)
            s2 == Strategy2(Merged0, inferFormat)
            s3 == Strategy3(Merged0, inferFormat)
        IN  /\ strategy = 1 <=> n1 > 0
            /\ strategy = 2 <=> (n1 = 0 /\ n2 > 0)
            /\ strategy = 3 <=> (n1 = 0 /\ n2 = 0)
            /\ \A k \in 1..Len(Merged0) :
                (s1[k] = NaT /\ s2[k] = NaT /\ s3[k] = NaT)
                    => Origin(Merged0[k]) \notin Origins(merged_data)
            /\ counts = <<Len(Merged0), Len(merged_data),
                          Len(Merged0) - Len(merged_data)>>
            /\ \A r \in Range(merged_data) : r.DateTime # NaT

\* strategy 2 was the one applied, it kept a row and dropped another
C4_Witness ==
    /\ app = "hydro" /\ pc = "storage" /\ strategy = 2
    /\ counts[2] > 0 /\ counts[3] > 0

\* the day-first reading of a date cell
DayFirst(cell) == Strptime("%d/%m/%Y", [d |-> cell, t |-> "-"])

\* C5: every retained timestamp is the day-first reading of its date cell, and a
\* row whose date reads day-first and whose time is valid is never dropped as a
\* parse failure, whatever else is in the batch.
C5_DayFirstEverywhere ==
    (app = "hydro" /\ pc = "storage") =>
        /\ \A r \in Range(merged_data) : r.DateTime = DayFirst(r.Date)
        /\ \A k \in 1..Len(Merged0) :
            (DayFirst(Merged0[k].Date) # NaT /\ TimeOk(Merged0[k].Time))
                => Origin(Merged0[k]) \in Origins(merged_data)

IsFinite(v) == Len(v) = 1

\* C6 as stated: every row of the table an ingestion step returned has a
\* timestamp and a finite number.
C6_ReturnedRowsFinite ==
    /\ \A r \in Range(lake_data) \cup Range(filtered_data) :
        r.Date # NaT /\ IsFinite(r.Storage)
    /\ \A r \in Range(df) : r.date # NaT /\ IsFinite(r.price)

\* C6 as amended: every row of the table an ingestion step returned has a
\* timestamp and a value that is not missing, each the one its cells parse to:
\* hydro's lake_data, futures' df (the node-price script returns none).
C6_ReturnedRowsValid ==
    /\ \A r \in Range(lake_data) \cup Range(filtered_data) :
        /\ r.Date # NaT /\ Len(r.Date) = 3
        /\ r.Storage # NaN /\ r.Storage \in {to_numeric(c) : c \in StorageCells}
    /\ \A r \in Range(df) : r.date # NaT /\ Len(r.date) = 3 /\ r.price # NaN

\* hydro returned a table after dropping a row
C6_Witness ==
    /\ app = "hydro" /\ "complete" \in log
    /\ lake_data # <<>> /\ Len(lake_data) < Len(Merged0)

\* the rows of the merged table whose storage cell is not a number
BadStorage(rows) == {k \in 1..Len(rows) : to_numeric(rows[k].Storage) = NaN}

\* the timestamps the fallback chain gives the rows of the merged table
Stamps(rows) == ParseTimestamps(rows, inferFormat).DateTime

\* exactly one row of the batch has a non-numeric storage cell, and that row
\* has a valid timestamp
OneBadStorage(rows) ==
    LET bad == BadStorage(rows)
    IN  /\ Cardinality(bad) = 1
        /\ \A k \in bad : Stamps(rows)[k] # NaT

\* the batch with the non-numeric storage cells replaced by a number
Repaired(rows) ==
    [k \in 1..Len(rows) |->
        IF k \in BadStorage(rows) THEN [rows[k] EXCEPT !.Storage = "10"] ELSE rows[k]]

\* C7 as stated: with exactly one such row the run never halts.
C7_NeverHalts ==
    (app = "hydro" /\ "complete" \in log /\ OneBadStorage(Merged0))
        => pc # "stopped"

\* C7 as amended: with exactly one such row, that row is dropped, the rows kept
\* are those with a valid timestamp other than it, each with its timestamp and
\* its number unchanged, and the table is one row shorter than with a numeric
\* cell in its place; no exception is raised; the run halts only when no other
\* row is left, with the empty-result message, and goes on otherwise.
C7_OneRowDropped ==
    (app = "hydro" /\ "complete" \in log /\ OneBadStorage(Merged0)) =>
        LET m0 == Merged0
            st == Stamps(m0)
            bad == BadStorage(m0)
        IN
        /\ Origins(lake_data) =
            {Origin(m0[k]) : k \in {j \in 1..Len(m0) : st[j] # NaT /\ j \notin bad}}
        /\ \A r \in Range(lake_data) : \A k \in 1..Len(m0) :
            Origin(m0[k]) = Origin(r)
                => /\ r.Storage = to_numeric(m0[k].Storage)
                   /\ r.Date = st[k]
                   /\ r.Lake = m0[k].Lake
        /\ Len(lake_data) = Len(ProcessMerged(Repaired(m0), inferFormat)) - 1
        /\ "error_occurred" \notin log
        /\ pc = "stopped" => (lake_data = <<>> /\ "no_processed" \in log)
        /\ pc \in {"present", "done"} => lake_data # <<>>

\* one row dropped for its storage cell, another kept, the run presented
C7_Witness ==
    /\ app = "hydro" /\ pc = "done" /\ "presented" \in log
    /\ OneBadStorage(Merged0)
    /\ Len(lake_data) = 1 /\ Len(Merged0) = 2

\* C8: a node-price run that has ended handed the presentation layer a table,
\* and that table has one row per (date, series) pair.
C8_DailyAggregatePresented ==
    (app = "node" /\ Ended) =>
        /\ "presented" \in log
        /\ \A a, b \in 1..Len(filtered_data) :
            (filtered_data[a].Date = filtered_data[b].Date
                /\ filtered_data[a].Lake = filtered_data[b].Lake) => a = b

\* rows in the order (descriptor, position in the payload)
InSourceOrder(rows) ==
    \A a, b \in 1..Len(rows) :
        a < b => \/ rows[a].src < rows[b].src
                 \/ (rows[a].src = rows[b].src /\ rows[a].idx < rows[b].idx)

\* C9: descriptors are requested one at a time in list order, and every table
\* lists the rows of an earlier descriptor before those of a later one, the
\* rows of one descriptor in the order of its payload.
C9_InputOrderKept ==
    app = "hydro" =>
        /\ Len(outcomes) \in {i, i + 1}
        /\ \A k \in 1..Len(data_frames) : \A r \in Range(data_frames[k].rows) :
            /\ r.src <= i /\ r.Lake = Lakes[r.src]
            /\ k < Len(data_frames) => \A q \in Range(data_frames[k + 1].rows) : r.src < q.src
        /\ InSourceOrder(Merged0)
        /\ InSourceOrder(merged_data)
        /\ InSourceOrder(lake_data)
        /\ InSourceOrder(filtered_data)

\* two descriptors each contributed a row to the returned table
C9_Witness ==
    /\ app = "hydro" /\ "complete" \in log
    /\ \E a, b \in 1..Len(lake_data) : lake_data[a].src # lake_data[b].src

EmptyResultMessages == {"no_valid_dates", "no_processed"}

\* C10: the no-sources message is shown only when no fetch succeeded and an
\* empty-result message only when one did; a run in which a fetch succeeded and
\* no row is valid after parsing stops before anything is presented, with a
\* message that is not the no-sources one.
C10_EmptyResultDistinct ==
    app = "hydro" =>
        /\ "no_sources" \in log => (data_frames = <<>> /\ log = {"no_sources"})
        /\ log \cap EmptyResultMessages # {} => data_frames # <<>>
        /\ (/\ Ended /\ "error_occurred" \notin log /\ data_frames # <<>>
            /\ ProcessMerged(Merged0, inferFormat) = <<>>)
                => /\ pc = "stopped"
                   /\ "presented" \notin log
                   /\ filtered_data = <<>>
                   /\ log \cap (EmptyResultMessages \cup {"missing_cols"}) # {}
                   /\ "no_sources" \notin log

\* a fetch succeeded, every storage cell was invalid, the run stopped
C10_Witness ==
    /\ app = "hydro" /\ pc = "stopped" /\ "no_processed" \in log
    /\ Merged0 # <<>> /\ counts[2] > 0

\* C11: every row of every table carries as its series the descriptor it was
\* fetched for, the lake name or the contract name the loop iterated over; a
\* 'Lake' column in the file, naming another lake, changes the series of no row.
C11_SeriesFromDescriptor ==
    /\ app = "hydro" =>
        /\ \A k \in 1..Len(data_frames) : \A r \in Range(data_frames[k].rows) :
            r.Lake = Lakes[r.src] /\ outcomes[r.src] \in {"csv", "nocols"}
        /\ \A r \in Range(merged_data) \cup Range(lake_data) \cup Range(filtered_data) :
            r.Lake = Lakes[r.src]
    /\ app = "futures" =>
        /\ \A k \in 1..Len(df_list) : \A r \in Range(df_list[k]) :
            r.src = k /\ r.contract = outcomes[k].name
        /\ \A r \in Range(df) : r.contract = outcomes[r.src].name

\* a row of the second lake was returned although its file named the first lake
C11_Witness ==
    /\ app = "hydro" /\ "complete" \in log
    /\ body_lake # "" /\ body_lake # Lakes[2]
    /\ \E r \in Range(lake_data) : r.src = 2 /\ r.Lake = Lakes[2]

\* a row that parses on its own: its date reads day-first, its time is valid
\* and its storage cell is a number
RowParses(r) ==
    DayFirst(r.Date) # NaT /\ r.Time = "00:00" /\ to_numeric(r.Storage) # NaN

HaltMessages == {"no_sources", "missing_cols"} \cup EmptyResultMessages

\* C12: a run in which a source was fetched and one of its rows parses runs to
\* completion and hands a non-empty table to the presentation layer: it ends in
\* no halt and not in the except handler. (hydro; a node-price run, whatever
\* its sources hold, does not end in the except handler either.)
C12_CompletesWithOneGoodSource ==
    /\ (app = "hydro" /\ Ended /\ \E r \in Range(Merged0) : RowParses(r))
            => /\ pc = "done" /\ "presented" \in log
               /\ lake_data # <<>>
               /\ log \cap (HaltMessages \cup {"error_occurred"}) = {}
    /\ (app = "node" /\ Ended) => "error_occurred" \notin log

\* the orders in which n descriptors can be listed
Perms(n) == {p \in [1..n -> 1..n] : \A a, b \in 1..n : p[a] = p[b] => a = b}

\* the merged table had the same files been fetched in the order p
MergedInOrder(p) == ConcatFrames([k \in 1..Len(data_frames) |-> data_frames[p[k]]])

\* the (timestamp, series, value) records of a table
Content(rows) == {<<r.Date, r.Lake, r.Storage>> : r \in Range(rows)}

\* C13: the records retained do not depend on the order in which the sources
\* were fetched: with the same files merged in any other order, the same set of
\* (timestamp, series, value) records is returned.
C13_FetchOrderIrrelevant ==
    (app = "hydro" /\ pc \in {"storage", "loaded"}) =>
        /\ \A p \in Perms(Len(data_frames)) :
            Content(ProcessMerged(MergedInOrder(p), inferFormat))
                = Content(ProcessMerged(Merged0, inferFormat))
        /\ pc = "loaded" => Content(lake_data) = Content(ProcessMerged(Merged0, inferFormat))

\* C14: a run ends without a result only when every descriptor failed or when
\* no row is valid after parsing; nothing that goes wrong with one descriptor
\* or one row reaches the script's except handler.
C14_OnlyTotalFailureHalts ==
    /\ (app = "hydro" /\ Ended) =>
        /\ "error_occurred" \notin log
        /\ "presented" \notin log =>
            \/ GoodFetches = {}
            \/ ProcessMerged(Merged0, inferFormat) = <<>>
    /\ (app = "node" /\ Ended) => "error_occurred" \notin log

\* C15: one strategy is chosen for the whole merged table: every retained row
\* has the timestamp that one strategy gives it, the retained rows are exactly
\* those valid under the first strategy that yields a valid timestamp over all
\* sources together, and a row only a later strategy parses is dropped when any
\* row of any source is valid under an earlier one.
C15_OneStrategyForTable ==
    (app = "hydro" /\ pc = "storage") =>
        LET m0 == Merged0
            s1 == Strategy1(m0, inferFormat)
            s2 == Strategy2(m0, inferFormat)
            s3 == Strategy3(m0, inferFormat)
            first == IF NotNaCount(s1) > 0 THEN s1 ELSE IF NotNaCount(s2) > 0 THEN s2 ELSE s3
        IN  /\ Origins(merged_data) = {Origin(m0[k]) : k \in {j \in 1..Len(m0) : first[j] # NaT}}
            /\ \A r \in Range(merged_data) : \A k \in 1..Len(m0) :
                Origin(m0[k]) = Origin(r) => r.DateTime = first[k]
            /\ \A k \in 1..Len(m0) :
                (/\ s1[k] = NaT
                 /\ s2[k] # NaT \/ s3[k] # NaT
                 /\ NotNaCount(s1) > 0) => Origin(m0[k]) \notin Origins(merged_data)

\* strategy 1 parsed a row of one source, so the row of another source that
\* only strategy 2 parses was dropped
C15_Witness ==
    /\ app = "hydro" /\ pc = "storage" /\ strategy = 1
    /\ Len(data_frames) = 2 /\ Len(Merged0) = 2 /\ Len(merged_data) = 1
    /\ \E k \in 1..2 :
        /\ Strategy1(Merged0, inferFormat)[k] = NaT
        /\ Strategy2(Merged0, inferFormat)[k] # NaT
        /\ Merged0[k].src # merged_data[1].src

\* the calendar: the days month m of year y has, and the dates there are
CalendarDays(y, m) ==
    CASE m \in {1, 3, 5, 7, 8, 10, 12} -> 31
      [] m \in {4, 6, 9, 11} -> 30
      [] m = 2 -> IF y % 400 = 0 \/ (y % 4 = 0 /\ y % 100 # 0) THEN 29 ELSE 28
      [] OTHER -> 0
IsCalendarDate(y, m, d) == y >= 1 /\ m >= 1 /\ m <= 12 /\ d >= 1 /\ d <= CalendarDays(y, m)

\* what parse_date_utc is to return for a 'timestamp' cell: the date (y, m+1, d)
\* for a text containing Date.UTC(y,m,d) when that is a calendar date, None for
\* a null cell, a text without the pattern and a date out of range
ExpectedDates ==
    [cell \in AnyTimestampCells |->
        IF cell # "" /\ \E g \in UtcTriples : cell \in UtcTexts(g)
        THEN LET g == CHOOSE t \in UtcTriples : cell \in UtcTexts(t)
             IN  IF IsCalendarDate(g[1], g[2] + 1, g[3])
                 THEN <<g[1], g[2] + 1, g[3]>>
                 ELSE NaT
        ELSE NaT]
ExpectedDate(cell) == ExpectedDates[cell]

RECURSIVE DaysToMonth(_, _)
DaysToMonth(y, m) ==
    IF y <= 2023 /\ m = 1 THEN 0
    ELSE IF m = 1 THEN DaysToMonth(y - 1, 12) + CalendarDays(y - 1, 12)
    ELSE DaysToMonth(y, m - 1) + CalendarDays(y, m - 1)

\* the whole days from midnight of a date to the clock reading t
AgeInDays(date, t) ==
    DaysToMonth(t.date[1], t.date[2]) + t.date[3]
        - (DaysToMonth(date[1], date[2]) + date[3])

\* the date lies within 180 days before the clock reading t
Within180Days(date, t) ==
    AgeInDays(date, t) < 180 \/ (AgeInDays(date, t) = 180 /\ t.tod = 0)

\* the dates the table has for a contract
DatesOf(c) == {r.date : r \in {q \in Range(df) : q.contract = c}}

\* C17: active_contracts and historic_contracts partition available_contracts,
\* a contract being active exactly when its latest date lies within 180 days
\* before now; whatever contract type is chosen, the default selection has at
\* most 8 entries, all of them among the contracts offered (filtered_contracts),
\* and the multiselect raises nothing.
C17_ContractPartition ==
    (app = "futures" /\ pc \in {"select", "done"}) =>
        /\ Range(available_contracts) = {r.contract : r \in Range(df)}
        /\ Range(active_contracts) \cap Range(historic_contracts) = {}
        /\ Range(active_contracts) \cup Range(historic_contracts)
                = Range(available_contracts)
        /\ Len(active_contracts) + Len(historic_contracts) = Len(available_contracts)
        /\ Len(available_contracts) = Cardinality(Range(available_contracts))
        /\ \A c \in Range(available_contracts) :
            c \in Range(active_contracts)
                <=> \E d \in DatesOf(c) : Within180Days(d, now)
        /\ pc = "done" =>
            /\ Len(default_contracts) <= 8
            /\ Range(default_contracts) \subseteq Range(filtered_contracts)
            /\ filtered_contracts =
                    CASE contract_type = "Active Contracts" -> active_contracts
                      [] contract_type = "Historic Contracts" -> historic_contracts
                      [] OTHER -> available_contracts
            /\ "exception" \notin log

\* nine contracts, none of them active, All Contracts chosen: eight by default
C17_Witness ==
    /\ app = "futures" /\ pc = "done" /\ contract_type = "All Contracts"
    /\ active_contracts = <<>> /\ Len(available_contracts) = 9
    /\ filtered_contracts = available_contracts
    /\ Len(default_contracts) = 8 /\ selected_contracts = default_contracts

====
